---------------------------- MODULE Spec2Model ----------------------------
(***************************************************************************)
(* wanglib.instruments.tektronix: the TDS3000 oscilloscope driver.         *)
(*                                                                         *)
(* The driver talks to the instrument through a bus object (write, read,   *)
(* ask, readall).  The model keeps the bytes pending on the bus (rx), the  *)
(* bus operations of each caller's latest call, in the order they reached  *)
(* the bus (log), the number of writes ever issued (nwrites), the position *)
(* of every caller inside get_curve (pc, loc), the outcome of each         *)
(* caller's last call (ret) and the instrument's own state (inst).  Two    *)
(* more variables only observe: snap is the instrument's state when a      *)
(* caller's latest get_curve began, and changed tells whether the          *)
(* instrument's preamble has changed since the first call.                 *)
(*                                                                         *)
(* Bytes are their integer codes (35 is '#', 48..57 the digits, 10 is the  *)
(* newline); a byte string is a sequence of them.  Commands written to the *)
(* bus are strings.  A decimal number is a record [m, e] standing for      *)
(* m * 10^e.                                                               *)
(***************************************************************************)
EXTENDS Integers, Sequences, FiniteSets, TLC

VARIABLES rx, log, pc, loc, ret, inst, transport, serialized, ncalls,
          arg, accepted, nwrites, snap, changed

vars == <<rx, log, pc, loc, ret, inst, transport, serialized, ncalls,
          arg, accepted, nwrites, snap, changed>>

(***************************************************************************)
(* Bounds of the model.                                                    *)
(***************************************************************************)
MaxCalls == 2
MaxMant == 20
ExpDown == 11
ExpUp == 1
MaxData == 4

Callers == {"a", "b"}

(***************************************************************************)
(* Decimal numbers.                                                        *)
(***************************************************************************)
Dec(m, e) == [m |-> m, e |-> e]

RECURSIVE Pow10(_)
Pow10(n) == IF n = 0 THEN 1 ELSE 10 * Pow10(n - 1)

RECURSIVE NumDigits(_)
NumDigits(m) == IF m < 10 THEN 1 ELSE 1 + NumDigits(m \div 10)

RECURSIVE Norm(_)
Norm(x) == IF x.m % 10 = 0 THEN Norm(Dec(x.m \div 10, x.e + 1)) ELSE x

\* Python's == on two numbers: equality of the values.
NumEq(x, y) == Norm(x) = Norm(y)

\* sciround(number, 1): one significant digit, the half rounded away from
\* zero on the scientific-notation mantissa.
sciround(number) ==
    LET nd   == NumDigits(number.m)
        unit == Pow10(nd - 1)
        lead == number.m \div unit
        rest == number.m % unit
        d    == IF 2 * rest >= unit /\ nd > 1 THEN lead + 1 ELSE lead
    IN  Dec(d * unit, number.e)

DigitChar(d) == <<"0", "1", "2", "3", "4", "5", "6", "7", "8", "9">>[d + 1]

RECURSIVE IntText(_)
IntText(n) == IF n < 10 THEN DigitChar(n)
              ELSE IntText(n \div 10) \o DigitChar(n % 10)

\* '%.1E' % x in place of '%.0E': a decimal point and one decimal.
FormatE1(x) ==
    LET nd   == NumDigits(x.m)
        unit == Pow10(nd - 1)
        lead == x.m \div unit
        next == IF nd > 1 THEN (x.m % unit) \div Pow10(nd - 2) ELSE 0
        k    == x.e + nd - 1
        a    == IF k < 0 THEN 0 - k ELSE k
    IN  DigitChar(lead) \o "." \o DigitChar(next) \o "E"
          \o (IF k < 0 THEN "-" ELSE "+")
          \o (IF a < 10 THEN "0" \o IntText(a) ELSE IntText(a))

\* '%.0E' % x: one mantissa digit (printf rounds the dropped digits, a tie
\* to the even digit), 'E', the exponent's sign and at least two digits.
FormatE0(x) ==
    LET nd   == NumDigits(x.m)
        unit == Pow10(nd - 1)
        lead == x.m \div unit
        rest == x.m % unit
        up   == 2 * rest > unit \/ (2 * rest = unit /\ nd > 1 /\ lead % 2 = 1)
        d    == IF up THEN lead + 1 ELSE lead
        k    == IF d = 10 THEN x.e + nd ELSE x.e + nd - 1
        a    == IF k < 0 THEN 0 - k ELSE k
    IN  DigitChar(IF d = 10 THEN 1 ELSE d) \o "E"
          \o (IF k < 0 THEN "-" ELSE "+")
          \o (IF a < 10 THEN "0" \o IntText(a) ELSE IntText(a))

\* TDS3000._acceptable_timedivs, in the order of the source.
acceptable_timedivs ==
    << Dec(10, 0), Dec(4, 0),  Dec(2, 0),  Dec(1, 0),
                   Dec(4, -1), Dec(2, -1), Dec(1, -1),
                   Dec(4, -2), Dec(2, -2), Dec(1, -2),
                   Dec(4, -3), Dec(2, -3), Dec(1, -3),
                   Dec(4, -4), Dec(2, -4), Dec(1, -4),
                   Dec(4, -5), Dec(2, -5), Dec(1, -5),
                   Dec(4, -6), Dec(2, -6), Dec(1, -6),
                   Dec(4, -7), Dec(2, -7), Dec(1, -7),
                   Dec(4, -8), Dec(2, -8), Dec(1, -8),
                   Dec(4, -9), Dec(2, -9), Dec(1, -9) >>

\* x in self._acceptable_timedivs
InTimedivs(x) ==
    \E i \in 1..Len(acceptable_timedivs) : NumEq(x, acceptable_timedivs[i])

(***************************************************************************)
(* Byte strings.                                                           *)
(***************************************************************************)
Hash == 35
NL == 10
Whitespace == {9, 10, 11, 12, 13, 32}
Digits == 48..57

Take(s, n) == SubSeq(s, 1, IF n < Len(s) THEN n ELSE Len(s))
Drop(s, n) == SubSeq(s, (IF n < Len(s) THEN n ELSE Len(s)) + 1, Len(s))

RECURSIVE Rstrip(_)
Rstrip(s) == IF Len(s) > 0 /\ s[Len(s)] \in Whitespace
             THEN Rstrip(SubSeq(s, 1, Len(s) - 1)) ELSE s

RECURSIVE Lstrip(_)
Lstrip(s) == IF Len(s) > 0 /\ s[1] \in Whitespace THEN Lstrip(Tail(s)) ELSE s

\* int(s): surrounding whitespace and one sign are allowed, then digits only.
IntBody(s) ==
    LET t == Lstrip(Rstrip(s))
    IN  IF Len(t) > 0 /\ t[1] \in {43, 45} THEN Tail(t) ELSE t

IntNegative(s) ==
    LET t == Lstrip(Rstrip(s)) IN Len(t) > 0 /\ t[1] = 45

IsInt(s) == Len(IntBody(s)) > 0 /\ \A i \in 1..Len(IntBody(s)) : IntBody(s)[i] \in Digits

RECURSIVE DigitsValue(_)
DigitsValue(t) == IF Len(t) = 0 THEN 0
                  ELSE 10 * DigitsValue(SubSeq(t, 1, Len(t) - 1)) + (t[Len(t)] - 48)

IntOf(s) == IF IntNegative(s) THEN 0 - DigitsValue(IntBody(s))
            ELSE DigitsValue(IntBody(s))

(***************************************************************************)
(* The instrument and the bus.                                             *)
(***************************************************************************)
MSB == <<77, 83, 66>>
LSB == <<76, 83, 66>>
RI == <<82, 73>>
RP == <<82, 80>>
One == <<49>>
Two == <<50>>

\* What the instrument sends back for a command.
Respond(cmd) ==
    CASE cmd = "CURV?"        -> inst.reply
      [] cmd = "WFMP:BYT_OR?" -> inst.byt_or \o <<NL>>
      [] cmd = "WFMP:BN_FMT?" -> inst.bn_fmt \o <<NL>>
      [] cmd = "WFMP:BYT_NR?" -> inst.byt_nr \o <<NL>>
      [] OTHER                -> <<>>

Unsized == 0 - 1

OpReadall(c) == [who |-> c, op |-> "readall", cmd |-> "", n |-> Unsized, got |-> <<>>]
OpWrite(c, cmd) == [who |-> c, op |-> "write", cmd |-> cmd, n |-> Unsized, got |-> <<>>]
OpRead(c, n, got) == [who |-> c, op |-> "read", cmd |-> "", n |-> n, got |-> got]
OpAsk(c, cmd, got) == [who |-> c, op |-> "ask", cmd |-> cmd, n |-> Unsized, got |-> got]

\* bus.read(): everything pending (GPIB) or a single byte (RS-232).
ReadUnsized == IF transport = "gpib" THEN rx ELSE Take(rx, 1)

\* bus.ask(cmd): the command is written and everything pending is returned.
AskGot(cmd) == rx \o Respond(cmd)

(***************************************************************************)
(* set_timediv                                                             *)
(***************************************************************************)
TimedivInputs ==
    { Dec(m, e) : m \in 1..MaxMant, e \in (0 - ExpDown)..ExpUp }

\* The outcome of a call: what it returned, or the exception it raised with
\* the message's text and the value formatted into it.
Returned(op, value) ==
    [op |-> op, kind |-> "returned", text |-> "", value |-> value]
Raised(op, kind, text, value) ==
    [op |-> op, kind |-> kind, text |-> text, value |-> value]
NoCall == [op |-> "none", kind |-> "none", text |-> "", value |-> <<>>]

TimedivError ==
    Raised("set_timediv", "InstrumentError", "Timediv not in %s", acceptable_timedivs)

Idle(c) == pc[c] = "idle"

\* A call may start when the bound allows it and, where the callers are
\* serialized, no other call is in progress.
CanStart(c) ==
    /\ Idle(c)
    /\ ncalls < MaxCalls
    /\ serialized => \A o \in Callers : Idle(o)

\* The bus operations of the other callers' latest calls: a caller's new call
\* starts its own record afresh.
Others(c) == SelectSeq(log, LAMBDA o : o.who # c)

\* Bookkeeping of a call: the bound, the argument, and whether the rounded
\* argument is an accepted value.
Called(c, to, ok) ==
    /\ ncalls' = ncalls + 1
    /\ arg' = [arg EXCEPT ![c] = to]
    /\ accepted' = accepted + (IF ok THEN 1 ELSE 0)

\* set_timediv sending the value before it validates it.
set_timediv_write_first(c, to) ==
    /\ CanStart(c)
    /\ Called(c, to, InTimedivs(sciround(to)))
    /\ log' = Append(Others(c), OpWrite(c, "HOR:MAI:SCA " \o FormatE0(sciround(to))))
    /\ nwrites' = nwrites + 1
    /\ ret' = [ret EXCEPT ![c] = IF InTimedivs(sciround(to))
                                 THEN Returned("set_timediv", <<>>)
                                 ELSE TimedivError]
    /\ UNCHANGED <<rx, pc, loc, inst, transport, serialized, snap, changed>>

\* set_timediv validating the value as given, rounding it only to send it.
set_timediv_unrounded(c, to) ==
    /\ CanStart(c)
    /\ Called(c, to, InTimedivs(to))
    /\ IF InTimedivs(to)
       THEN /\ log' = Append(Others(c), OpWrite(c, "HOR:MAI:SCA " \o FormatE0(sciround(to))))
            /\ nwrites' = nwrites + 1
            /\ ret' = [ret EXCEPT ![c] = Returned("set_timediv", <<>>)]
       ELSE /\ log' = Others(c)
            /\ nwrites' = nwrites
            /\ ret' = [ret EXCEPT ![c] = TimedivError]
    /\ UNCHANGED <<rx, pc, loc, inst, transport, serialized, snap, changed>>

set_timediv(c, to) ==
    /\ CanStart(c)
    /\ Called(c, to, InTimedivs(sciround(to)))
    /\ LET rounded == sciround(to) IN
       IF InTimedivs(rounded)
       THEN /\ log' = Append(Others(c), OpWrite(c, "HOR:MAI:SCA " \o FormatE0(rounded)))
            /\ nwrites' = nwrites + 1
            /\ ret' = [ret EXCEPT ![c] = Returned("set_timediv", <<>>)]
       ELSE /\ log' = Others(c)
            /\ nwrites' = nwrites
            /\ ret' = [ret EXCEPT ![c] = TimedivError]
    /\ UNCHANGED <<rx, pc, loc, inst, transport, serialized, snap, changed>>

(***************************************************************************)
(* get_curve                                                               *)
(***************************************************************************)
NoLocals == [result |-> <<>>, meta_len |-> 0, data_len |-> 0,
             byt_or |-> <<>>, bn_fmt |-> <<>>]

Step(c, to) == pc' = [pc EXCEPT ![c] = to]
Finish(c, outcome) ==
    /\ pc' = [pc EXCEPT ![c] = "idle"]
    /\ ret' = [ret EXCEPT ![c] = outcome]

\* numpy's element width for the dtype string's size part.
Width(nr) == CASE nr = <<49>> -> 1
               [] nr = <<50>> -> 2
               [] nr = <<52>> -> 4
               [] nr = <<56>> -> 8
               [] OTHER       -> 0

RECURSIVE Pow256(_)
Pow256(n) == IF n = 0 THEN 1 ELSE 256 * Pow256(n - 1)

\* The unsigned value of a group of bytes, the first byte the most significant.
RECURSIVE BigEndian(_)
BigEndian(g) == IF Len(g) = 0 THEN 0
                ELSE 256 * BigEndian(SubSeq(g, 1, Len(g) - 1)) + g[Len(g)]

Reverse(g) == [i \in 1..Len(g) |-> g[Len(g) + 1 - i]]

\* One element of numpy.fromstring(data, dtype = order + kind + width).
Element(g, order, kind) ==
    LET u == BigEndian(IF order = ">" THEN g ELSE Reverse(g))
    IN  IF kind = "i" /\ u >= Pow256(Len(g)) \div 2 THEN u - Pow256(Len(g)) ELSE u

FromString(data, order, kind, w) ==
    [i \in 1..(Len(data) \div w) |->
        Element(SubSeq(data, (i - 1) * w + 1, i * w), order, kind)]

\* The dtype with the byte orders exchanged: '<' for 'MSB'.
Decode_order_swapped(data, byt_or, bn_fmt, byt_nr) ==
    LET order == IF byt_or = MSB THEN "<" ELSE ">"
        kind  == IF bn_fmt = RI THEN "i" ELSE "u"
        w     == Width(byt_nr)
    IN  IF w = 0 THEN Raised("get_curve", "TypeError", "data type not understood", byt_nr)
        ELSE IF Len(data) % w # 0
        THEN Raised("get_curve", "ValueError", "string size must be a multiple of element size", data)
        ELSE Returned("get_curve", FromString(data, order, kind, w))

\* The dtype always unsigned: BN_FMT is not looked at.
Decode_unsigned(data, byt_or, bn_fmt, byt_nr) ==
    LET order == IF byt_or = MSB THEN ">" ELSE "<"
        w     == Width(byt_nr)
    IN  IF w = 0 THEN Raised("get_curve", "TypeError", "data type not understood", byt_nr)
        ELSE IF Len(data) % w # 0
        THEN Raised("get_curve", "ValueError", "string size must be a multiple of element size", data)
        ELSE Returned("get_curve", FromString(data, order, "u", w))

\* The end of get_curve: the dtype and the array, or numpy's error.
Decode(data, byt_or, bn_fmt, byt_nr) ==
    LET order == IF byt_or = MSB THEN ">" ELSE "<"
        kind  == IF bn_fmt = RI THEN "i" ELSE "u"
        w     == Width(byt_nr)
    IN  IF w = 0 THEN Raised("get_curve", "TypeError", "data type not understood", byt_nr)
        ELSE IF Len(data) % w # 0
        THEN Raised("get_curve", "ValueError", "string size must be a multiple of element size", data)
        ELSE Returned("get_curve", FromString(data, order, kind, w))

\* get_curve starting without emptying the bus.
gc_readall_no_flush(c) ==
    /\ CanStart(c)
    /\ ncalls' = ncalls + 1
    /\ rx' = rx
    /\ log' = Append(Others(c), OpReadall(c))
    /\ loc' = [loc EXCEPT ![c] = NoLocals]
    /\ ret' = [ret EXCEPT ![c] = NoCall]
    /\ snap' = [snap EXCEPT ![c] = inst]
    /\ Step(c, "write")
    /\ UNCHANGED <<inst, transport, serialized, arg, accepted, nwrites, changed>>

\* self.bus.readall()
gc_readall(c) ==
    /\ CanStart(c)
    /\ ncalls' = ncalls + 1
    /\ rx' = <<>>
    /\ log' = Append(Others(c), OpReadall(c))
    /\ loc' = [loc EXCEPT ![c] = NoLocals]
    /\ ret' = [ret EXCEPT ![c] = NoCall]
    /\ snap' = [snap EXCEPT ![c] = inst]
    /\ Step(c, "write")
    /\ UNCHANGED <<inst, transport, serialized, arg, accepted, nwrites, changed>>

\* self.bus.write('CURV?')
gc_write(c) ==
    /\ pc[c] = "write"
    /\ rx' = rx \o Respond("CURV?")
    /\ log' = Append(log, OpWrite(c, "CURV?"))
    /\ nwrites' = nwrites + 1
    /\ Step(c, "read")
    /\ UNCHANGED <<loc, ret, inst, transport, serialized, ncalls, arg, accepted, snap, changed>>

\* The branch without its elif: a single unknown byte is decoded as data.
gc_read_no_raise(c) ==
    LET result == ReadUnsized IN
    /\ pc[c] = "read"
    /\ rx' = Drop(rx, Len(result))
    /\ log' = Append(log, OpRead(c, Unsized, result))
    /\ loc' = [loc EXCEPT ![c].result = result]
    /\ IF result = <<Hash>>
       THEN Step(c, "meta") /\ ret' = ret
       ELSE Step(c, "byt_or") /\ ret' = ret
    /\ UNCHANGED <<inst, transport, serialized, ncalls, arg, accepted, nwrites, snap, changed>>

\* The branch on result.startswith('#') in place of result == '#'.
gc_read_startswith(c) ==
    LET result == ReadUnsized IN
    /\ pc[c] = "read"
    /\ rx' = Drop(rx, Len(result))
    /\ log' = Append(log, OpRead(c, Unsized, result))
    /\ loc' = [loc EXCEPT ![c].result = result]
    /\ IF Len(result) >= 1 /\ result[1] = Hash
       THEN Step(c, "meta") /\ ret' = ret
       ELSE IF Len(result) = 1
       THEN Finish(c, Raised("get_curve", "InstrumentError", "Unknown first byte: %s", result))
       ELSE Step(c, "byt_or") /\ ret' = ret
    /\ UNCHANGED <<inst, transport, serialized, ncalls, arg, accepted, nwrites, snap, changed>>

\* result = self.bus.read(), and the branch on it.
gc_read(c) ==
    LET result == ReadUnsized IN
    /\ pc[c] = "read"
    /\ rx' = Drop(rx, Len(result))
    /\ log' = Append(log, OpRead(c, Unsized, result))
    /\ loc' = [loc EXCEPT ![c].result = result]
    /\ IF result = <<Hash>>
       THEN Step(c, "meta") /\ ret' = ret
       ELSE IF Len(result) = 1
       THEN Finish(c, Raised("get_curve", "InstrumentError", "Unknown first byte: %s", result))
       ELSE Step(c, "byt_or") /\ ret' = ret
    /\ UNCHANGED <<inst, transport, serialized, ncalls, arg, accepted, nwrites, snap, changed>>

IntError(s) == Raised("get_curve", "ValueError", "invalid literal for int()", s)

\* meta_len = int(self.bus.read(1))
gc_meta(c) ==
    LET s == Take(rx, 1) IN
    /\ pc[c] = "meta"
    /\ rx' = Drop(rx, 1)
    /\ log' = Append(log, OpRead(c, 1, s))
    /\ IF IsInt(s)
       THEN /\ loc' = [loc EXCEPT ![c].meta_len = IntOf(s)]
            /\ Step(c, "len") /\ ret' = ret
       ELSE /\ loc' = loc
            /\ Finish(c, IntError(s))
    /\ UNCHANGED <<inst, transport, serialized, ncalls, arg, accepted, nwrites, snap, changed>>

\* data_len = int(self.bus.read(meta_len))
gc_len(c) ==
    LET s == Take(rx, loc[c].meta_len) IN
    /\ pc[c] = "len"
    /\ rx' = Drop(rx, loc[c].meta_len)
    /\ log' = Append(log, OpRead(c, loc[c].meta_len, s))
    /\ IF IsInt(s)
       THEN /\ loc' = [loc EXCEPT ![c].data_len = IntOf(s)]
            /\ Step(c, "data") /\ ret' = ret
       ELSE /\ loc' = loc
            /\ Finish(c, IntError(s))
    /\ UNCHANGED <<inst, transport, serialized, ncalls, arg, accepted, nwrites, snap, changed>>

\* The payload read without the read of the final newline after it.
gc_data_no_newline(c) ==
    LET s == Take(rx, loc[c].data_len) IN
    /\ pc[c] = "data"
    /\ rx' = Drop(rx, loc[c].data_len)
    /\ log' = Append(log, OpRead(c, loc[c].data_len, s))
    /\ loc' = [loc EXCEPT ![c].result = s]
    /\ Step(c, "byt_or")
    /\ UNCHANGED <<ret, inst, transport, serialized, ncalls, arg, accepted, nwrites, snap, changed>>

\* result = self.bus.read(data_len)
gc_data(c) ==
    LET s == Take(rx, loc[c].data_len) IN
    /\ pc[c] = "data"
    /\ rx' = Drop(rx, loc[c].data_len)
    /\ log' = Append(log, OpRead(c, loc[c].data_len, s))
    /\ loc' = [loc EXCEPT ![c].result = s]
    /\ Step(c, "nl")
    /\ UNCHANGED <<ret, inst, transport, serialized, ncalls, arg, accepted, nwrites, snap, changed>>

\* self.bus.read(1), the final newline
gc_nl(c) ==
    /\ pc[c] = "nl"
    /\ rx' = Drop(rx, 1)
    /\ log' = Append(log, OpRead(c, 1, Take(rx, 1)))
    /\ Step(c, "byt_or")
    /\ UNCHANGED <<loc, ret, inst, transport, serialized, ncalls, arg, accepted, nwrites, snap, changed>>

\* _Wfmpre.__getitem__(key), on the bus: the ask and its stripped result.
wfmpre_cmd(key) == "WFMP:" \o key \o "?"
\* The response as it came, its newline kept.
wfmpre_get_unstripped(key) == AskGot("WFMP:" \o key \o "?")

wfmpre_get(key) == Rstrip(AskGot(wfmpre_cmd(key)))
wfmpre_ops(c, key) == <<OpAsk(c, wfmpre_cmd(key), AskGot(wfmpre_cmd(key)))>>

\* self.wfmpre['BYT_OR']
gc_byt_or(c) ==
    /\ pc[c] = "byt_or"
    /\ rx' = <<>>
    /\ log' = log \o wfmpre_ops(c, "BYT_OR")
    /\ loc' = [loc EXCEPT ![c].byt_or = wfmpre_get("BYT_OR")]
    /\ Step(c, "bn_fmt")
    /\ UNCHANGED <<ret, inst, transport, serialized, ncalls, arg, accepted, nwrites, snap, changed>>

\* self.wfmpre['BN_FMT']
gc_bn_fmt(c) ==
    /\ pc[c] = "bn_fmt"
    /\ rx' = <<>>
    /\ log' = log \o wfmpre_ops(c, "BN_FMT")
    /\ loc' = [loc EXCEPT ![c].bn_fmt = wfmpre_get("BN_FMT")]
    /\ Step(c, "byt_nr")
    /\ UNCHANGED <<ret, inst, transport, serialized, ncalls, arg, accepted, nwrites, snap, changed>>

\* self.wfmpre['BYT_NR'], and numpy.fromstring(result, dtype = fmt)
gc_byt_nr(c) ==
    /\ pc[c] = "byt_nr"
    /\ rx' = <<>>
    /\ log' = log \o wfmpre_ops(c, "BYT_NR")
    /\ Finish(c, Decode(loc[c].result, loc[c].byt_or, loc[c].bn_fmt, wfmpre_get("BYT_NR")))
    /\ UNCHANGED <<loc, inst, transport, serialized, ncalls, arg, accepted, nwrites, snap, changed>>

\* The bytes a caller's pending read waits for.
Needed(c) == CASE pc[c] = "read" -> 1
               [] pc[c] = "meta" -> 1
               [] pc[c] = "len"  -> loc[c].meta_len
               [] pc[c] = "data" -> loc[c].data_len
               [] pc[c] = "nl"   -> 1
               [] OTHER          -> 0

\* A read that finds fewer bytes than it asks for may also never return.
gc_block(c) ==
    /\ Needed(c) > Len(rx)
    /\ Step(c, "blocked")
    /\ UNCHANGED <<rx, log, loc, ret, inst, transport, serialized, ncalls, arg, accepted, nwrites, snap, changed>>

get_curve(c) ==
    \/ gc_readall(c) \/ gc_write(c) \/ gc_read(c) \/ gc_meta(c) \/ gc_len(c)
    \/ gc_data(c) \/ gc_nl(c) \/ gc_byt_or(c) \/ gc_bn_fmt(c) \/ gc_byt_nr(c)
    \/ gc_block(c)

(***************************************************************************)
(* The instrument's states, and the specifications.                        *)
(***************************************************************************)
ByteVals == {1, 255}
DataSet == UNION { [1..n -> ByteVals] : n \in 0..MaxData }

\* The decimal digits of n, zero-padded to d bytes.
RECURSIVE Padded(_, _)
Padded(n, d) == IF d = 0 THEN <<>>
                ELSE Padded(n \div 10, d - 1) \o <<48 + (n % 10)>>

\* A binary block: '#', the digit count, the length, the data, a newline.
Block(d, data) == <<Hash, 48 + d>> \o Padded(Len(data), d) \o data \o <<NL>>

MetaLens == {1, 4}

\* '#14' then '0004' then four raw bytes and the newline.
Stream14(data) == <<Hash, 49, 52>> \o <<48, 48, 48, 52>> \o data \o <<NL>>

OddReplies ==
    { <<>>, <<88>>, <<88, NL>>, <<Hash>>, <<Hash, 88>>, <<Hash, 49, 88>>,
      <<Hash, 49, 52, 1>> }

Replies ==
    { Block(d, data) : d \in MetaLens, data \in DataSet }
      \cup { Stream14(data) : data \in { x \in DataSet : Len(x) = 4 } }
      \cup OddReplies

Preambles ==
    [byt_or : {MSB, LSB}, bn_fmt : {RI, RP}, byt_nr : {One, Two}]

Instrument(reply, p) ==
    [reply |-> reply, byt_or |-> p.byt_or, bn_fmt |-> p.bn_fmt, byt_nr |-> p.byt_nr]

InitDriver ==
    /\ rx = <<>>
    /\ log = <<>>
    /\ pc = [c \in Callers |-> "idle"]
    /\ loc = [c \in Callers |-> NoLocals]
    /\ ret = [c \in Callers |-> NoCall]
    /\ ncalls = 0
    /\ arg = [c \in Callers |-> Dec(1, 0)]
    /\ accepted = 0
    /\ nwrites = 0
    /\ changed = FALSE

\* The instrument's preamble changes between acquisitions.
Reconfigure ==
    /\ \A c \in Callers : Idle(c)
    /\ 0 < ncalls /\ ncalls < MaxCalls
    /\ \E p \in Preambles :
          /\ Instrument(inst.reply, p) # inst
          /\ inst' = Instrument(inst.reply, p)
    /\ changed' = TRUE
    /\ UNCHANGED <<rx, log, pc, loc, ret, transport, serialized, ncalls, arg, accepted,
                   nwrites, snap>>

\* One caller after another fetching traces.
Init ==
    /\ InitDriver
    /\ serialized = TRUE
    /\ transport \in {"serial", "gpib"}
    /\ \E r \in Replies, p \in Preambles : inst = Instrument(r, p)
    /\ snap = [c \in Callers |-> inst]

Next ==
    \/ get_curve("a")
    \/ Reconfigure

Spec == Init /\ [][Next]_vars

\* Callers setting the time per division.
InitTimediv ==
    /\ InitDriver
    /\ serialized = TRUE
    /\ transport = "serial"
    /\ inst = Instrument(Block(1, <<>>), [byt_or |-> MSB, bn_fmt |-> RI, byt_nr |-> One])
    /\ snap = [c \in Callers |-> inst]

NextTimediv == \E to \in TimedivInputs : set_timediv("a", to)

SpecTimediv == InitTimediv /\ [][NextTimediv]_vars

\* Two callers on one bus, serialized or not.
SharedReplies == { Block(1, <<1, 255>>), Block(1, <<255, 1, 1, 1>>), <<88, NL>> }

InitShared ==
    /\ InitDriver
    /\ serialized \in BOOLEAN
    /\ transport \in {"serial", "gpib"}
    /\ \E r \in SharedReplies :
          inst = Instrument(r, [byt_or |-> MSB, bn_fmt |-> RI, byt_nr |-> Two])
    /\ snap = [c \in Callers |-> inst]

NextShared == \E c \in Callers : get_curve(c)

SpecShared == InitShared /\ [][NextShared]_vars

(***************************************************************************)
(* Properties of set_timediv, under SpecTimediv.                           *)
(***************************************************************************)
\* The outcome and argument of a's latest call, when it was a set_timediv.
SetDone == ret["a"].op = "set_timediv"

\* '%.0E' of the accepted values, written out: one mantissa digit, no
\* decimals, a signed two-digit exponent.
TimedivText ==
    << "1E+01", "4E+00", "2E+00", "1E+00",
                "4E-01", "2E-01", "1E-01",
                "4E-02", "2E-02", "1E-02",
                "4E-03", "2E-03", "1E-03",
                "4E-04", "2E-04", "1E-04",
                "4E-05", "2E-05", "1E-05",
                "4E-06", "2E-06", "1E-06",
                "4E-07", "2E-07", "1E-07",
                "4E-08", "2E-08", "1E-08",
                "4E-09", "2E-09", "1E-09" >>

\* The 1-2-4 decade values from 10 s down to 1 ns, stated on the digits.
InDecadeSet(x) ==
    \/ Norm(x) = Dec(1, 1)
    \/ Norm(x).m \in {1, 2, 4} /\ Norm(x).e \in (0 - 9)..0

\* C1: for every value v of the 31-element accepted set, set_timediv(v) does
\* exactly one bus operation, the write of 'HOR:MAI:SCA ' followed by v in
\* %.0E form, raises nothing and issues no read or ask.
C1_AcceptedValueWritten ==
    /\ Len(acceptable_timedivs) = 31
    /\ \A i \in 1..Len(acceptable_timedivs) :
          (SetDone /\ NumEq(arg["a"], acceptable_timedivs[i])) =>
              /\ log = <<OpWrite("a", "HOR:MAI:SCA " \o TimedivText[i])>>
              /\ ret["a"] = Returned("set_timediv", <<>>)

C1_Witness ==
    /\ SetDone
    /\ arg["a"] = Dec(10, 0 - 4)
    /\ log = <<OpWrite("a", "HOR:MAI:SCA 1E-03")>>

\* C2: when the rounded value is not in the accepted set, set_timediv raises
\* an InstrumentError listing the accepted set and the call has issued no bus
\* operation; over any sequence of set_timediv calls the number of writes
\* equals the number of calls whose rounded value was in the set.
C2_RejectedBeforeAnyWrite ==
    /\ (SetDone /\ ~InDecadeSet(sciround(arg["a"]))) =>
          /\ ret["a"].kind = "InstrumentError"
          /\ ret["a"].text = "Timediv not in %s"
          /\ ret["a"].value = acceptable_timedivs
          /\ log = <<>>
    /\ nwrites = accepted
    /\ (SetDone /\ log = <<>>) => ~InDecadeSet(sciround(arg["a"]))

C2_Witness ==
    /\ SetDone
    /\ arg["a"] = Dec(3, 0)
    /\ ret["a"].kind = "InstrumentError"
    /\ log = <<>>
    /\ ncalls = 2
    /\ nwrites = 1

\* C8 as stated: each of 3, 7 and 0.15 raises the invalid-setting error and
\* issues no write.
C8_ExamplesAllRejected ==
    \A v \in {Dec(3, 0), Dec(7, 0), Dec(15, 0 - 2)} :
        (SetDone /\ NumEq(arg["a"], v)) =>
            ret["a"].kind = "InstrumentError" /\ log = <<>>

\* C8, amended: 3 and 7 raise the invalid-setting error and issue no write;
\* 0.15 rounds to 0.2, an accepted value, so it raises nothing and issues
\* the one write of that value.
C8_OnlyThreeAndSevenRejected ==
    /\ \A v \in {Dec(3, 0), Dec(7, 0)} :
          (SetDone /\ NumEq(arg["a"], v)) =>
              ret["a"] = TimedivError /\ log = <<>>
    /\ (SetDone /\ NumEq(arg["a"], Dec(15, 0 - 2))) =>
          /\ ret["a"] = Returned("set_timediv", <<>>)
          /\ log = <<OpWrite("a", "HOR:MAI:SCA 2E-01")>>

C8_Witness ==
    /\ SetDone
    /\ arg["a"] = Dec(15, 0 - 2)
    /\ log = <<OpWrite("a", "HOR:MAI:SCA 2E-01")>>
    /\ nwrites = 1

(***************************************************************************)
(* Properties of get_curve, under Spec: caller a alone, so that log holds  *)
(* the bus operations of its latest call.                                  *)
(***************************************************************************)
CurveDone == pc["a"] = "idle" /\ ret["a"].op = "get_curve"

\* The call's first read returned '#'.
HashRead == Len(log) >= 3 /\ log[3].got = <<Hash>>

\* The call came to build the dtype and decode.
Decoded ==
    /\ CurveDone
    /\ ret["a"].text \notin {"Unknown first byte: %s", "invalid literal for int()"}

IsRead(o, n) == o.who = "a" /\ o.op = "read" /\ o.n = n
IsAsk(o, key) == o.who = "a" /\ o.op = "ask" /\ o.cmd = "WFMP:" \o key \o "?"

\* C3: get_curve drives the bus in a fixed order: readall(), write('CURV?'),
\* one unsized read(); when that read returns '#', then a read of 1 byte (the
\* digit count d), of d bytes (the length n), of n bytes (the payload) and of
\* 1 byte (the newline), nothing in between, and CURV? never before readall().
C3_FixedBusOrder ==
    /\ Len(log) >= 1 => log[1] = OpReadall("a")
    /\ Len(log) >= 2 => log[2] = OpWrite("a", "CURV?")
    /\ Len(log) >= 3 => IsRead(log[3], Unsized)
    /\ \A i \in 1..Len(log) : log[i].cmd = "CURV?" => i = 2
    /\ HashRead =>
          /\ Len(log) >= 4 => IsRead(log[4], 1)
          /\ Len(log) >= 5 => IsRead(log[5], IntOf(log[4].got))
          /\ Len(log) >= 6 => IsRead(log[6], IntOf(log[5].got))
          /\ Len(log) >= 7 => IsRead(log[7], 1)
          /\ \A i \in 8..Len(log) : log[i].op = "ask"
          /\ pc["a"] \in {"byt_or", "bn_fmt", "byt_nr"} => Len(log) >= 7
          /\ Decoded => Len(log) = 10

C3_Witness ==
    /\ CurveDone
    /\ ret["a"].kind = "returned"
    /\ HashRead
    /\ Len(log) = 10
    /\ log[4].got = <<52>> /\ log[5].n = 4
    /\ log[5].got = <<48, 48, 48, 52>> /\ log[6].n = 4
    /\ log[6].got = <<255, 1, 1, 255>>
    /\ log[7].got = <<NL>>

\* C4: when the first read after CURV? returns a single byte other than '#',
\* get_curve raises an InstrumentError whose message holds that byte, and it
\* does nothing more on the bus: no header or payload read, no WFMP query.
C4_UnknownFirstByte ==
    (Len(log) >= 3 /\ Len(log[3].got) = 1 /\ log[3].got # <<Hash>>) =>
        /\ CurveDone
        /\ ret["a"] = Raised("get_curve", "InstrumentError",
                             "Unknown first byte: %s", log[3].got)
        /\ Len(log) = 3
        /\ rx = Drop(snap["a"].reply, 1)

C4_Witness ==
    /\ CurveDone
    /\ transport = "serial"
    /\ snap["a"].reply = <<88, NL>>
    /\ ret["a"].kind = "InstrumentError"
    /\ ret["a"].value = <<88>>
    /\ rx = <<NL>>

\* A signed 16-bit integer from its two bytes, the high byte first.
S16(hi, lo) == IF 256 * hi + lo >= 32768 THEN 256 * hi + lo - 65536
               ELSE 256 * hi + lo

Raw4 == { d \in DataSet : Len(d) = 4 }

MsbSigned2 == [byt_or |-> MSB, bn_fmt |-> RI, byt_nr |-> Two]

\* C5 as stated: with BYT_OR = 'MSB', BN_FMT = 'RI', BYT_NR = '2' and the
\* response '#14', '0004', four raw bytes and the newline, get_curve returns
\* the two big-endian signed 16-bit integers of the raw bytes.  It is stated
\* for the bus on which the first read returns the '#' alone, the one on
\* which the block is parsed at all.
C5_Stream14Decoded ==
    \A d \in Raw4 :
        (CurveDone /\ transport = "serial"
            /\ snap["a"] = Instrument(Stream14(d), MsbSigned2)) =>
            ret["a"] = Returned("get_curve", <<S16(d[1], d[2]), S16(d[3], d[4])>>)

\* C5, amended: with the same preamble, a bus whose unsized read returns one
\* byte, and the response '#4', '0004', four raw bytes and the newline,
\* get_curve returns the two big-endian signed 16-bit integers of the raw
\* bytes.
C5_Block4Decoded ==
    \A d \in Raw4 :
        (CurveDone /\ transport = "serial"
            /\ snap["a"] = Instrument(<<Hash, 52, 48, 48, 48, 52>> \o d \o <<NL>>, MsbSigned2)) =>
            ret["a"] = Returned("get_curve", <<S16(d[1], d[2]), S16(d[3], d[4])>>)

C5_Witness ==
    /\ CurveDone
    /\ transport = "serial"
    /\ snap["a"] = Instrument(<<Hash, 52, 48, 48, 48, 52, 255, 1, 1, 255, NL>>, MsbSigned2)
    /\ ret["a"] = Returned("get_curve", <<0 - 255, 511>>)

\* The last three bus operations of a call that came to decode.
Ask1 == log[Len(log) - 2]
Ask2 == log[Len(log) - 1]
Ask3 == log[Len(log)]

EndsWith(s, t) == Len(s) >= Len(t) /\ SubSeq(s, Len(s) - Len(t) + 1, Len(s)) = t

NumAsks == Cardinality({ i \in 1..Len(log) : log[i].op = "ask" })

\* C6: preamble values are never cached.  Every wfmpre[key] is one ask of
\* 'WFMP:<key>?' whose response, stripped on the right, is the value; a
\* get_curve that comes to decode has made exactly three of them, BYT_OR,
\* BN_FMT, BYT_NR in that order as its last bus operations, the instrument
\* answered them with the preamble it had during that call, and the call
\* decoded with those answers.
C6_PreambleAskedInCall ==
    /\ pc["a"] = "bn_fmt" =>
          /\ IsAsk(log[Len(log)], "BYT_OR")
          /\ loc["a"].byt_or = Rstrip(log[Len(log)].got)
          /\ NumAsks = 1
    /\ pc["a"] = "byt_nr" =>
          /\ IsAsk(log[Len(log) - 1], "BYT_OR") /\ IsAsk(log[Len(log)], "BN_FMT")
          /\ loc["a"].bn_fmt = Rstrip(log[Len(log)].got)
          /\ NumAsks = 2
    /\ Decoded =>
          /\ Len(log) >= 6
          /\ NumAsks = 3
          /\ IsAsk(Ask1, "BYT_OR") /\ IsAsk(Ask2, "BN_FMT") /\ IsAsk(Ask3, "BYT_NR")
          /\ EndsWith(Ask1.got, snap["a"].byt_or \o <<NL>>)
          /\ Ask2.got = snap["a"].bn_fmt \o <<NL>>
          /\ Ask3.got = snap["a"].byt_nr \o <<NL>>
          /\ ret["a"] = Decode(loc["a"].result, Rstrip(Ask1.got), Rstrip(Ask2.got),
                               Rstrip(Ask3.got))
    /\ (CurveDone /\ ~Decoded) => NumAsks = 0

\* A second call, after the preamble changed, decoding little-endian and
\* unsigned what the instrument reported in that call.
C6_Witness ==
    /\ Decoded
    /\ changed
    /\ ncalls = 2
    /\ transport = "serial"
    /\ snap["a"] = Instrument(Block(1, <<255, 1>>), [byt_or |-> LSB, bn_fmt |-> RP, byt_nr |-> Two])
    /\ Ask1.got = <<76, 83, 66, NL>>
    /\ ret["a"] = Returned("get_curve", <<511>>)

\* The value of the w bytes of p from position k on: unsigned, the first byte
\* the most significant (msb) or the least significant.
RECURSIVE Unsigned(_, _, _, _)
Unsigned(p, k, w, msb) ==
    IF w = 0 THEN 0
    ELSE IF msb THEN 256 * Unsigned(p, k, w - 1, msb) + p[k + w - 1]
         ELSE p[k] + 256 * Unsigned(p, k + 1, w - 1, msb)

\* Two's complement on w bytes.
Sample(p, k, w, msb, signed) ==
    LET u == Unsigned(p, k, w, msb)
    IN  IF signed /\ 2 * u >= Pow256(w) THEN u - Pow256(w) ELSE u

Samples(p, w, msb, signed) ==
    [i \in 1..(Len(p) \div w) |-> Sample(p, (i - 1) * w + 1, w, msb, signed)]

Palindromic(p, k, w) == \A j \in 0..(w - 1) : p[k + j] = p[k + w - 1 - j]

\* C9: for a '#' block of n payload bytes and sample width w = BYT_NR,
\* get_curve returns n / w integers in order, sample i built from payload
\* bytes i*w .. i*w+w-1, the most significant first when BYT_OR is exactly
\* 'MSB' and the least significant first otherwise, two's complement when
\* BN_FMT is exactly 'RI' and unsigned otherwise; with a group that is not a
\* palindrome the result differs from the one of the other byte order.
C9_SamplesFromPayload ==
    (CurveDone /\ HashRead /\ ret["a"].kind = "returned") =>
        LET p      == log[6].got
            w      == IntOf(Rstrip(Ask3.got))
            msb    == Rstrip(Ask1.got) = MSB
            signed == Rstrip(Ask2.got) = RI
        IN  /\ Len(ret["a"].value) * w = Len(p)
            /\ ret["a"].value = Samples(p, w, msb, signed)
            /\ (\E i \in 1..(Len(p) \div w) : ~Palindromic(p, (i - 1) * w + 1, w))
                  => ret["a"].value # Samples(p, w, ~msb, signed)

\* The same payload, not a palindrome, under the other byte order: -255
\* most significant byte first, 511 here.
C9_Witness ==
    /\ CurveDone
    /\ HashRead
    /\ ret["a"].kind = "returned"
    /\ log[6].got = <<255, 1>>
    /\ Rstrip(Ask1.got) = LSB
    /\ Rstrip(Ask2.got) = RI
    /\ Rstrip(Ask3.got) = Two
    /\ ret["a"] = Returned("get_curve", <<511>>)
    /\ Samples(log[6].got, 2, TRUE, TRUE) = <<0 - 255>>

\* C10: the malformed-response error is raised only when the first read
\* returns exactly one byte that is not '#'.  When it returns nothing or more
\* than one byte, get_curve parses no header and reads no more: the three
\* preamble queries follow at once and the whole first read, header bytes and
\* terminator included, is what is decoded.
C10_WholeReadDecoded ==
    /\ (CurveDone /\ ret["a"].text = "Unknown first byte: %s") =>
          Len(log[3].got) = 1 /\ log[3].got # <<Hash>>
    /\ (Len(log) >= 3 /\ Len(log[3].got) # 1) =>
          /\ \A i \in 4..Len(log) : log[i].op = "ask"
          /\ pc["a"] \in {"byt_or", "bn_fmt", "byt_nr", "idle"}
          /\ loc["a"].result = log[3].got
          /\ rx = <<>>
          /\ CurveDone =>
                /\ Len(log) = 6
                /\ IsAsk(log[4], "BYT_OR") /\ IsAsk(log[5], "BN_FMT")
                /\ IsAsk(log[6], "BYT_NR")
                /\ ret["a"] = Decode(log[3].got, Rstrip(log[4].got), Rstrip(log[5].got),
                                     Rstrip(log[6].got))
                /\ ret["a"].kind # "InstrumentError"

\* The whole reply '#12', two bytes and the newline in one read, decoded as
\* six one-byte samples.
C10_Witness ==
    /\ CurveDone
    /\ transport = "gpib"
    /\ log[3].got = <<Hash, 49, 50, 1, 255, NL>>
    /\ Rstrip(log[6].got) = One
    /\ Rstrip(log[5].got) = RP
    /\ ret["a"] = Returned("get_curve", <<Hash, 49, 50, 1, 255, NL>>)

(***************************************************************************)
(* Two callers on one bus, under SpecShared.                               *)
(***************************************************************************)
\* What get_curve gives when it runs alone on an idle bus, for an instrument
\* that answers CURV? with a well-formed block or with other bytes.
SoloResult(i, t) ==
    LET r     == i.reply
        first == IF t = "gpib" THEN r ELSE Take(r, 1)
    IN  IF first = <<Hash>>
        THEN LET d == r[2] - 48
                 n == DigitsValue(SubSeq(r, 3, 2 + d))
             IN  Decode(SubSeq(r, 3 + d, 2 + d + n), i.byt_or, i.bn_fmt, i.byt_nr)
        ELSE IF Len(first) = 1
        THEN Raised("get_curve", "InstrumentError", "Unknown first byte: %s", first)
        ELSE Decode(first, i.byt_or, i.bn_fmt, i.byt_nr)

Fetched(c) == pc[c] = "idle" /\ ret[c].op = "get_curve"

\* C7: the block read of get_curve is not atomic.  With callers that are not
\* serialized a get_curve can end with data or an error it would not give
\* alone (C7_Witness is such a state); with serialized callers every
\* get_curve ends as it would alone, and none is left waiting for bytes.
C7_SerializedCallsAsAlone ==
    serialized =>
        \A c \in Callers :
            /\ pc[c] # "blocked"
            /\ Fetched(c) => ret[c] = SoloResult(snap[c], transport)

\* Unserialized: b's readall() fell between a's CURV? and a's reads, and a
\* returned an array that is not the instrument's trace.
C7_Witness ==
    /\ ~serialized
    /\ transport = "serial"
    /\ Fetched("a") /\ Fetched("b")
    /\ ret["a"].kind = "returned"
    /\ ret["a"] # SoloResult(snap["a"], transport)
    /\ ret["b"] = SoloResult(snap["b"], transport)
    /\ \E i \in 1..Len(log) : \E j \in 1..Len(log) : \E k \in 1..Len(log) :
          /\ i < j /\ j < k
          /\ log[i] = OpWrite("a", "CURV?")
          /\ log[j] = OpReadall("b")
          /\ log[k].who = "a" /\ log[k].op = "read"

====
